---- MODULE Spec2Model ----
(***************************************************************************)
(* Model of terraform-manage.go: a command-line helper that uploads or     *)
(* downloads an environment's tfvars file to/from an S3 bucket and runs    *)
(* `terraform plan` / `terraform apply` with it.                           *)
(*                                                                         *)
(* One behaviour is a sequence of process invocations over a persistent    *)
(* world (the local file system and the bucket).  Each invocation is       *)
(* stepped statement by statement so that the order of credential          *)
(* resolution, file I/O, S3 requests and child processes is observable.    *)
(* Go strings that are only compared are TLA+ strings; file paths and S3   *)
(* keys, which the program concatenates, are sequences of characters.      *)
(***************************************************************************)
EXTENDS Integers, Sequences, FiniteSets, TLC

(* ---------------------------- bounds ----------------------------------- *)

\* number of process invocations in one behaviour
MaxRuns == 2
\* largest number of positional command-line arguments tried
MaxArgs == 3

(* ------------------------- input alphabets ----------------------------- *)

\* operation names tried as os.Args[1]: the four of the switch and one other
OpNames == {"upload", "download", "plan", "apply", "destroy"}
\* the keys of fileMapping
Environments == {"dev", "staging", "prod", "dr", "management"}
\* environment names tried as os.Args[2]
EnvNames == Environments \cup {"qa"}
\* values of the *_TFVARS variables: unset, a bare file name, and a path with
\* a directory component that has the same base name
PathSet == {<<>>, <<"a">>, <<"d", "/", "a">>}
\* paths that can name a file
RealPaths == PathSet \ {<<>>}
\* values of S3_PATH
PrefixSet == {<<"p", "/">>}
\* file and object contents
Contents == {<<>>, <<1>>, <<2, 1>>, <<1, 2>>}

NoFile == [exists |-> FALSE, data |-> <<>>]
File(d) == [exists |-> TRUE, data |-> d]
FileStates == {NoFile} \cup {File(d) : d \in Contents}
\* what a file holds before the first invocation, if it exists
InitData(p) == IF Len(p) = 1 THEN <<1>> ELSE <<2, 1>>
\* what an object holds before the first invocation, if it exists
InitObject == <<1, 2>>

\* values of one AWS_* variable: unset/empty, or set
EnvValues(v) == {"", v}
AwsEnvs ==
    [profile : EnvValues("prof"), region : EnvValues("us-east-1"),
     accessKey : EnvValues("AKIA"), secretKey : EnvValues("secret"),
     sessionToken : EnvValues("token")]
NoEnv ==
    [profile |-> "?", region |-> "?", accessKey |-> "?", secretKey |-> "?",
     sessionToken |-> "?"]

NoCfg == [mode |-> "none"]
NoIO ==
    [getConfig |-> FALSE, opened |-> FALSE, created |-> FALSE,
     s3Request |-> FALSE, spawned |-> FALSE, child |-> "none",
     returned |-> FALSE]
NoRun == [uploaded |-> FALSE, environment |-> "", key |-> <<>>, body |-> <<>>]

ExtraArgs(k) == [i \in 1..k |-> "out.plan"]
ArgVectors ==
    {<<"prog">>}
    \cup {<<"prog", o>> : o \in OpNames}
    \cup {<<"prog", o, e>> \o ExtraArgs(k) :
             o \in OpNames, e \in EnvNames, k \in 0..(MaxArgs - 2)}

(* ---------------------------- state ------------------------------------ *)

VARIABLES
    fileMapping,    \* environment name -> configured tfvars path
    S3Path,         \* key prefix
    files,          \* local file system: path -> file
    store,          \* the bucket S3Bucket: key -> object
    runs,           \* invocations started so far
    prev,           \* the previous invocation, if it was a successful upload
    pc,             \* position of the running process
    osArgs,         \* os.Args (element 1 is the program name)
    operation, environment, fileName,
    awsEnv,         \* the AWS_* variables of the process under SpecConfig
    cfg,            \* the aws.Config getConfig returned
    err,            \* the error kind returned or printed, "" for nil
    exitCode,       \* -1 while running
    numBytes,       \* bytes reported by the downloader
    reqKey,         \* Key of the last S3 request issued
    body,           \* content streamed by the uploader
    io              \* which kinds of I/O this invocation has performed

world == <<fileMapping, S3Path, files, store>>
locals == <<osArgs, operation, environment, fileName, awsEnv, cfg, numBytes,
            reqKey, body, io>>
vars == <<fileMapping, S3Path, files, store, runs, prev, pc, osArgs,
          operation, environment, fileName, awsEnv, cfg, err, exitCode,
          numBytes, reqKey, body, io>>

(* ------------------------- pure helpers -------------------------------- *)

\* the base name of a path: its last element, trailing separators removed,
\* "." for the empty path (Go's filepath.Base)
RECURSIVE Base(_)
Base(p) ==
    IF p = <<>> THEN <<".">>
    ELSE IF \E i \in 1..Len(p) : p[i] = "/"
         THEN LET i == CHOOSE j \in 1..Len(p) :
                           p[j] = "/" /\ \A k \in (j + 1)..Len(p) : p[k] # "/"
              IN IF i = Len(p) THEN Base(SubSeq(p, 1, Len(p) - 1))
                 ELSE SubSeq(p, i + 1, Len(p))
         ELSE p

\* Key: aws.String(S3Path + fileName).  The faulty variant keeps only the
\* base name of the path.
ObjectKeyBase(prefix, name) == prefix \o Base(name)
ObjectKey(prefix, name) == prefix \o name

\* the keys a request can name
Keys == {ObjectKey(pre, p) : pre \in PrefixSet, p \in PathSet}

\* getConfig: validation and selection of the authentication mode.  loadOK
\* is whether config.LoadDefaultConfig succeeded.  The first faulty variant
\* prefers the explicit keys to the profile, the second checks the region
\* before the credentials.
getConfigKeysFirst(e, loadOK) ==
    IF e.profile = "" /\ (e.accessKey = "" \/ e.secretKey = "")
    THEN [err |-> "MissingCredentials", cfg |-> NoCfg]
    ELSE IF e.region = ""
    THEN [err |-> "MissingRegion", cfg |-> NoCfg]
    ELSE IF ~loadOK
    THEN [err |-> "LoadConfigError", cfg |-> NoCfg]
    ELSE IF e.accessKey # "" /\ e.secretKey # ""
    THEN [err |-> "",
          cfg |-> [mode |-> "keys", accessKey |-> e.accessKey,
                   secretKey |-> e.secretKey,
                   sessionToken |-> e.sessionToken, region |-> e.region]]
    ELSE [err |-> "",
          cfg |-> [mode |-> "profile", profile |-> e.profile,
                   region |-> e.region]]
getConfigRegionFirst(e, loadOK) ==
    IF e.region = ""
    THEN [err |-> "MissingRegion", cfg |-> NoCfg]
    ELSE IF e.profile = "" /\ (e.accessKey = "" \/ e.secretKey = "")
    THEN [err |-> "MissingCredentials", cfg |-> NoCfg]
    ELSE IF ~loadOK
    THEN [err |-> "LoadConfigError", cfg |-> NoCfg]
    ELSE IF e.profile # ""
    THEN [err |-> "",
          cfg |-> [mode |-> "profile", profile |-> e.profile,
                   region |-> e.region]]
    ELSE [err |-> "",
          cfg |-> [mode |-> "keys", accessKey |-> e.accessKey,
                   secretKey |-> e.secretKey,
                   sessionToken |-> e.sessionToken, region |-> e.region]]
getConfig(e, loadOK) ==
    IF e.profile = "" /\ (e.accessKey = "" \/ e.secretKey = "")
    THEN [err |-> "MissingCredentials", cfg |-> NoCfg]
    ELSE IF e.region = ""
    THEN [err |-> "MissingRegion", cfg |-> NoCfg]
    ELSE IF ~loadOK
    THEN [err |-> "LoadConfigError", cfg |-> NoCfg]
    ELSE IF e.profile # ""
    THEN [err |-> "",
          cfg |-> [mode |-> "profile", profile |-> e.profile,
                   region |-> e.region]]
    ELSE [err |-> "",
          cfg |-> [mode |-> "keys", accessKey |-> e.accessKey,
                   secretKey |-> e.secretKey,
                   sessionToken |-> e.sessionToken, region |-> e.region]]

\* the first n bytes of d
Prefix(d, n) == SubSeq(d, 1, n)

(* ------------------------- initial state ------------------------------- *)

Init ==
    /\ \E p \in PathSet, q \in PathSet :
          fileMapping = [e \in Environments |-> IF e = "dev" THEN p ELSE q]
    /\ S3Path \in PrefixSet
    /\ files \in [RealPaths -> FileStates]
    /\ \A p \in RealPaths : files[p] \in {NoFile, File(InitData(p))}
    /\ \E full \in BOOLEAN :
          store = [k \in Keys |->
                     IF full /\ k \in {S3Path \o p : p \in RealPaths}
                     THEN File(InitObject) ELSE NoFile]
    /\ runs = 0
    /\ prev = NoRun
    /\ pc = "idle"
    /\ osArgs = <<"prog">>
    /\ operation = ""
    /\ environment = ""
    /\ fileName = <<>>
    /\ awsEnv = NoEnv
    /\ cfg = NoCfg
    /\ err = ""
    /\ exitCode = -1
    /\ numBytes = 0
    /\ reqKey = <<>>
    /\ body = <<>>
    /\ io = NoIO

(* --------------------------- process exit ------------------------------ *)

\* os.Exit(code) / log.Fatalf / return from main, with error kind e
Exit(code, e) ==
    /\ pc' = "exited"
    /\ exitCode' = code
    /\ err' = e
    /\ UNCHANGED prev

\* the called operation returned e to main
Return(e) ==
    /\ pc' = "main_ret"
    /\ err' = e
    /\ UNCHANGED <<exitCode, prev>>

Goto(l) ==
    /\ pc' = l
    /\ UNCHANGED <<err, exitCode, prev>>


\* the element of order that follows l
After(order, l) ==
    LET i == CHOOSE j \in 1..Len(order) : order[j] = l
    IN IF i < Len(order) THEN order[i + 1] ELSE "done"

\* d written at offset 0 of a file holding old
Overlay(old, d) ==
    IF Len(d) >= Len(old) THEN d ELSE d \o SubSeq(old, Len(d) + 1, Len(old))

(* ------------------------------ main ----------------------------------- *)

\* the process is started with some argument vector
Start ==
    /\ pc \in {"idle", "exited"}
    /\ runs < MaxRuns
    /\ runs' = runs + 1
    /\ osArgs' \in ArgVectors
    /\ operation' = ""
    /\ environment' = ""
    /\ fileName' = <<>>
    /\ awsEnv' = NoEnv
    /\ cfg' = NoCfg
    /\ numBytes' = 0
    /\ reqKey' = <<>>
    /\ body' = <<>>
    /\ io' = NoIO
    /\ pc' = "main"
    /\ err' = ""
    /\ exitCode' = -1
    /\ prev' = IF exitCode = 0 /\ operation = "upload"
               THEN [uploaded |-> TRUE, environment |-> environment,
                     key |-> reqKey, body |-> body]
               ELSE NoRun
    /\ UNCHANGED world

\* main: the argument-count check, then operation and environment are read
MainArgs ==
    /\ pc = "main"
    /\ IF Len(osArgs) < 3
       THEN /\ UNCHANGED locals
            /\ Exit(1, "UsageError")
       ELSE /\ operation' = osArgs[2]
            /\ environment' = osArgs[3]
            /\ UNCHANGED <<osArgs, fileName, awsEnv, cfg, numBytes, reqKey,
                           body, io>>
            /\ Goto("main_lookup")
    /\ UNCHANGED <<world, runs>>

\* main: the lookup in fileMapping.  The faulty variant ignores `exists` and goes on
\* with the zero value.
MainLookupZero ==
    /\ pc = "main_lookup"
    /\ fileName' = IF environment \in DOMAIN fileMapping
                   THEN fileMapping[environment] ELSE <<>>
    /\ UNCHANGED <<osArgs, operation, environment, awsEnv, cfg, numBytes,
                   reqKey, body, io>>
    /\ Goto("main_switch")
    /\ UNCHANGED <<world, runs>>
MainLookup ==
    /\ pc = "main_lookup"
    /\ IF environment \notin DOMAIN fileMapping
       THEN /\ UNCHANGED locals
            /\ Exit(1, "UnknownEnvironment")
       ELSE /\ fileName' = fileMapping[environment]
            /\ UNCHANGED <<osArgs, operation, environment, awsEnv, cfg,
                           numBytes, reqKey, body, io>>
            /\ Goto("main_switch")
    /\ UNCHANGED <<world, runs>>

\* the statements of uploadTFVars and of downloadTFVars, in order.  The
\* faulty variants touch the local file before they resolve credentials.
UploadOrderOpenFirst == <<"up_open", "up_getConfig", "up_send">>
UploadOrder == <<"up_getConfig", "up_open", "up_send">>
DownloadOrderCreateFirst == <<"down_create", "down_getConfig", "down_transfer">>
DownloadOrder == <<"down_getConfig", "down_create", "down_transfer">>

\* main: the switch on the operation.  The faulty variant omits the argument-count
\* check of the plan case.
MainSwitchNoPlanCheck ==
    /\ pc = "main_switch"
    /\ UNCHANGED locals
    /\ CASE operation = "upload" -> Goto(UploadOrder[1])
         [] operation = "download" -> Goto(DownloadOrder[1])
         [] operation = "plan" -> Goto("plan_abs")
         [] operation = "apply" -> Goto("apply_abs")
         [] OTHER -> Exit(1, "UnknownOperation")
    /\ UNCHANGED <<world, runs>>
MainSwitch ==
    /\ pc = "main_switch"
    /\ UNCHANGED locals
    /\ CASE operation = "upload" -> Goto(UploadOrder[1])
         [] operation = "download" -> Goto(DownloadOrder[1])
         [] operation = "plan" ->
                IF Len(osArgs) # 4
                THEN Exit(1, "UsageError")
                ELSE Goto("plan_abs")
         [] operation = "apply" -> Goto("apply_abs")
         [] OTHER -> Exit(1, "UnknownOperation")
    /\ UNCHANGED <<world, runs>>

\* main: the check of the operation's error.  The faulty variant drops it.
MainReturnIgnoreErr ==
    /\ pc = "main_ret"
    /\ UNCHANGED locals
    /\ Exit(0, err)
    /\ UNCHANGED <<world, runs>>
MainReturn ==
    /\ pc = "main_ret"
    /\ UNCHANGED locals
    /\ IF err # "" THEN Exit(1, err) ELSE Exit(0, "")
    /\ UNCHANGED <<world, runs>>

(* --------------------------- uploadTFVars ------------------------------ *)

\* the call of getConfig by an operation whose statements are `order`
CallGetConfig(order, l) ==
    /\ pc = l
    /\ \E e \in AwsEnvs, loadOK \in BOOLEAN :
          LET r == getConfig(e, loadOK)
          IN /\ cfg' = r.cfg
             /\ IF r.err # ""
                THEN /\ io' = [io EXCEPT !.getConfig = TRUE, !.returned = TRUE]
                     /\ Return(r.err)
                ELSE /\ io' = [io EXCEPT !.getConfig = TRUE]
                     /\ Goto(After(order, l))
    /\ UNCHANGED <<osArgs, operation, environment, fileName, awsEnv,
                   numBytes, reqKey, body>>
    /\ UNCHANGED <<world, runs>>

UploadGetConfig == CallGetConfig(UploadOrder, "up_getConfig")

\* os.Open(fileName)
UploadOpen ==
    /\ pc = "up_open"
    /\ \E ok \in BOOLEAN :
          IF ok /\ fileName \in RealPaths /\ files[fileName].exists
          THEN /\ io' = [io EXCEPT !.opened = TRUE]
               /\ Goto(After(UploadOrder, "up_open"))
          ELSE /\ io' = [io EXCEPT !.returned = TRUE]
               /\ Return("FileNotFound")
    /\ UNCHANGED <<osArgs, operation, environment, fileName, awsEnv, cfg,
                   numBytes, reqKey, body>>
    /\ UNCHANGED <<world, runs>>

\* uploader.Upload of the open file to Key S3Path + fileName
UploadSend ==
    /\ pc = "up_send"
    /\ reqKey' = ObjectKey(S3Path, fileName)
    /\ body' = files[fileName].data
    /\ io' = [io EXCEPT !.s3Request = TRUE, !.returned = TRUE]
    /\ \E ok \in BOOLEAN :
          IF ok
          THEN /\ store' = [store EXCEPT ![reqKey'] = File(body')]
               /\ Return("")
          ELSE /\ UNCHANGED store
               /\ Return("UploadError")
    /\ UNCHANGED <<osArgs, operation, environment, fileName, awsEnv, cfg,
                   numBytes>>
    /\ UNCHANGED <<fileMapping, S3Path, files, runs>>

(* -------------------------- downloadTFVars ----------------------------- *)

DownloadGetConfig == CallGetConfig(DownloadOrder, "down_getConfig")

\* os.Create(fileName): creates the file or truncates it
DownloadCreate ==
    /\ pc = "down_create"
    /\ \E ok \in BOOLEAN :
          IF ok /\ fileName \in RealPaths
          THEN /\ files' = [files EXCEPT ![fileName] = File(<<>>)]
               /\ io' = [io EXCEPT !.created = TRUE]
               /\ Goto(After(DownloadOrder, "down_create"))
          ELSE /\ UNCHANGED files
               /\ io' = [io EXCEPT !.returned = TRUE]
               /\ Return("CreateFileError")
    /\ UNCHANGED <<osArgs, operation, environment, fileName, awsEnv, cfg,
                   numBytes, reqKey, body>>
    /\ UNCHANGED <<fileMapping, S3Path, store, runs>>

\* downloader.Download from Key S3Path + fileName into the created file: n
\* bytes of the object are written before the transfer ends; it succeeds
\* only if the whole object was written.  The first faulty variant removes the file
\* when the transfer fails, the second reports a short transfer as a success.
DownloadTransferCleanup ==
    /\ pc = "down_transfer"
    /\ reqKey' = ObjectKey(S3Path, fileName)
    /\ io' = [io EXCEPT !.s3Request = TRUE, !.returned = TRUE]
    /\ LET obj == store[reqKey']
       IN \E n \in 0..Len(obj.data), ok \in BOOLEAN :
             /\ numBytes' = n
             /\ IF ok /\ obj.exists /\ n = Len(obj.data)
                THEN /\ files' = [files EXCEPT ![fileName] =
                           File(Overlay(files[fileName].data,
                                        Prefix(obj.data, n)))]
                     /\ Return("")
                ELSE /\ files' = [files EXCEPT ![fileName] = NoFile]
                     /\ Return("DownloadError")
    /\ UNCHANGED <<osArgs, operation, environment, fileName, awsEnv, cfg,
                   body>>
    /\ UNCHANGED <<fileMapping, S3Path, store, runs>>
DownloadTransferShort ==
    /\ pc = "down_transfer"
    /\ reqKey' = ObjectKey(S3Path, fileName)
    /\ io' = [io EXCEPT !.s3Request = TRUE, !.returned = TRUE]
    /\ LET obj == store[reqKey']
       IN \E n \in 0..Len(obj.data), ok \in BOOLEAN :
             /\ numBytes' = n
             /\ files' = [files EXCEPT ![fileName] =
                             File(Overlay(files[fileName].data,
                                          Prefix(obj.data, n)))]
             /\ IF ok /\ obj.exists
                THEN Return("")
                ELSE Return("DownloadError")
    /\ UNCHANGED <<osArgs, operation, environment, fileName, awsEnv, cfg,
                   body>>
    /\ UNCHANGED <<fileMapping, S3Path, store, runs>>
DownloadTransfer ==
    /\ pc = "down_transfer"
    /\ reqKey' = ObjectKey(S3Path, fileName)
    /\ io' = [io EXCEPT !.s3Request = TRUE, !.returned = TRUE]
    /\ LET obj == store[reqKey']
       IN \E n \in 0..Len(obj.data), ok \in BOOLEAN :
             /\ numBytes' = n
             /\ files' = [files EXCEPT ![fileName] =
                             File(Overlay(files[fileName].data,
                                          Prefix(obj.data, n)))]
             /\ IF ok /\ obj.exists /\ n = Len(obj.data)
                THEN Return("")
                ELSE Return("DownloadError")
    /\ UNCHANGED <<osArgs, operation, environment, fileName, awsEnv, cfg,
                   body>>
    /\ UNCHANGED <<fileMapping, S3Path, store, runs>>

(* ---------------------- terraformApply / terraformPlan ------------------ *)

\* filepath.Abs of the path arguments: fails when the working directory
\* cannot be determined
ResolvePaths(l, next) ==
    /\ pc = l
    /\ \E ok \in BOOLEAN :
          IF ok
          THEN /\ UNCHANGED io
               /\ Goto(next)
          ELSE /\ io' = [io EXCEPT !.returned = TRUE]
               /\ Return("PathResolutionError")
    /\ UNCHANGED <<osArgs, operation, environment, fileName, awsEnv, cfg,
                   numBytes, reqKey, body>>
    /\ UNCHANGED <<world, runs>>

\* exec.Command("terraform", ...).Run(): the child exits 0, exits non-zero,
\* or cannot be started
RunTerraform(l) ==
    /\ pc = l
    /\ \E result \in {"exit0", "exit1", "notstarted"} :
          /\ io' = [io EXCEPT !.spawned = TRUE, !.child = result,
                              !.returned = TRUE]
          /\ IF result = "exit0"
             THEN Return("")
             ELSE Return("ProvisioningFailed")
    /\ UNCHANGED <<osArgs, operation, environment, fileName, awsEnv, cfg,
                   numBytes, reqKey, body>>
    /\ UNCHANGED <<world, runs>>

ApplyAbs == ResolvePaths("apply_abs", "apply_run")
ApplyRun == RunTerraform("apply_run")
PlanAbs == ResolvePaths("plan_abs", "plan_run")
PlanRun == RunTerraform("plan_run")

(* -------------------------- specification ------------------------------ *)

Next ==
    \/ Start
    \/ MainArgs
    \/ MainLookup
    \/ MainSwitch
    \/ MainReturn
    \/ UploadGetConfig
    \/ UploadOpen
    \/ UploadSend
    \/ DownloadGetConfig
    \/ DownloadCreate
    \/ DownloadTransfer
    \/ ApplyAbs
    \/ ApplyRun
    \/ PlanAbs
    \/ PlanRun

Spec == Init /\ [][Next]_vars

(* ------------------- getConfig as a function of its inputs -------------- *)

\* getConfig is entered from uploadTFVars or downloadTFVars with any
\* combination of the AWS_* variables set or unset
InitConfig ==
    /\ awsEnv \in AwsEnvs
    /\ operation \in {"upload", "download"}
    /\ pc = "getConfig"
    /\ fileMapping = [e \in Environments |-> <<>>]
    /\ S3Path \in PrefixSet
    /\ files = [p \in RealPaths |-> NoFile]
    /\ store = [k \in Keys |-> NoFile]
    /\ runs = 1
    /\ prev = NoRun
    /\ osArgs = <<"prog", operation, "dev">>
    /\ environment = "dev"
    /\ fileName = <<>>
    /\ cfg = NoCfg
    /\ err = ""
    /\ exitCode = -1
    /\ numBytes = 0
    /\ reqKey = <<>>
    /\ body = <<>>
    /\ io = NoIO

\* getConfig runs on the variables read and returns
GetConfigReturn ==
    /\ pc = "getConfig"
    /\ \E loadOK \in BOOLEAN :
          LET r == getConfig(awsEnv, loadOK)
          IN /\ cfg' = r.cfg
             /\ err' = r.err
    /\ io' = [io EXCEPT !.getConfig = TRUE]
    /\ pc' = "getConfig_ret"
    /\ UNCHANGED <<world, runs, prev, osArgs, operation, environment,
                   fileName, awsEnv, exitCode, numBytes, reqKey, body>>

NextConfig == GetConfigReturn

SpecConfig == InitConfig /\ [][NextConfig]_vars


(* ------------------------------ claims --------------------------------- *)

Environment5 == {"dev", "staging", "prod", "dr", "management"}
CredentialErrors == {"MissingCredentials", "MissingRegion", "LoadConfigError"}
Running == pc \notin {"idle", "exited"}
Exited == pc = "exited"
\* the local file of this invocation cannot be opened
Unopenable == fileName \notin RealPaths \/ ~files[fileName].exists

\* C1: a process that has terminated has exit code 0 or 1, and it has exit
\* code 0 exactly when the selected operation ran and returned no error; a
\* usage error, an unknown environment, an unknown operation and every error
\* of an operation end in exit code 1.  A running process can always take
\* its next step.
C1_ExitCode ==
    /\ Exited =>
          /\ exitCode \in {0, 1}
          /\ exitCode = 0 <=> (io.returned /\ err = "")
          /\ exitCode = 0 =>
                /\ Len(osArgs) >= 3
                /\ osArgs[2] \in {"upload", "download", "plan", "apply"}
                /\ osArgs[3] \in Environment5
          /\ err \in {"UsageError", "UnknownEnvironment", "UnknownOperation"}
                => ~io.returned /\ exitCode = 1
    /\ Running => exitCode = -1 /\ ENABLED Next
C1_Witness ==
    /\ Exited /\ exitCode = 0 /\ io.returned /\ operation = "apply"
    /\ io.child = "exit0"

\* C2: with at least two positional arguments and an environment name that
\* is not one of the five, the run performs no I/O of any kind in any of its
\* states, whatever the operation name, and ends with UnknownEnvironment.
C2_UnknownEnvironmentNoIO ==
    (pc # "idle" /\ Len(osArgs) >= 3 /\ osArgs[3] \notin Environment5) =>
        /\ io = NoIO
        /\ pc \in {"main", "main_lookup", "exited"}
        /\ Exited => err = "UnknownEnvironment" /\ exitCode = 1
C2_Witness ==
    /\ Exited /\ Len(osArgs) = 4 /\ osArgs[2] = "upload" /\ osArgs[3] = "qa"
    /\ err = "UnknownEnvironment"

\* C3 as stated: plan with 3 positional arguments succeeds when the child
\* exits 0, and plan with 2 positional arguments fails with UsageError
\* without a child process.
C3_Original ==
    /\ (Exited /\ Len(osArgs) = 4 /\ osArgs[2] = "plan" /\ io.child = "exit0")
          => exitCode = 0
    /\ (pc # "idle" /\ Len(osArgs) = 3 /\ osArgs[2] = "plan") =>
          /\ ~io.spawned
          /\ Exited => err = "UsageError"

\* C3 amended: plan with 3 positional arguments succeeds when the child
\* exits 0; plan with 2 positional arguments never spawns a child and fails
\* with UsageError when the environment name is one of the five, and with
\* UnknownEnvironment when it is not.
C3_PlanArguments ==
    /\ (Exited /\ Len(osArgs) = 4 /\ osArgs[2] = "plan" /\ io.child = "exit0")
          => exitCode = 0 /\ err = ""
    /\ (pc # "idle" /\ Len(osArgs) = 3 /\ osArgs[2] = "plan") =>
          /\ ~io.spawned
          /\ Exited =>
                /\ exitCode = 1
                /\ err = IF osArgs[3] \in Environment5
                         THEN "UsageError" ELSE "UnknownEnvironment"
C3_Witness ==
    /\ Exited /\ Len(osArgs) = 3 /\ osArgs[2] = "plan" /\ osArgs[3] = "prod"
    /\ err = "UsageError" /\ ~io.spawned

\* C4: getConfig fails with MissingCredentials exactly when the profile is
\* absent and the access key or the secret key is absent; otherwise it fails
\* with MissingRegion exactly when the region is absent.
C4_ValidationOrder ==
    pc = "getConfig_ret" =>
        LET missingCreds ==
                awsEnv.profile = ""
                /\ (awsEnv.accessKey = "" \/ awsEnv.secretKey = "")
        IN /\ err = "MissingCredentials" <=> missingCreds
           /\ err = "MissingRegion" <=> (~missingCreds /\ awsEnv.region = "")
C4_Witness ==
    /\ pc = "getConfig_ret"
    /\ awsEnv.profile = "" /\ awsEnv.secretKey = "" /\ awsEnv.region = ""
    /\ err = "MissingCredentials"

\* C5: with profile and region present getConfig builds the profile
\* configuration, which holds the profile and the region and nothing of the
\* access key, secret key or session token, whatever their values; the
\* explicit-key configuration is built only when the profile is absent and
\* both keys and the region are present, and holds the session token as
\* read, empty or not.
C5_ProfilePrecedence ==
    pc = "getConfig_ret" =>
        /\ (awsEnv.profile # "" /\ awsEnv.region # "") =>
              /\ err \in {"", "LoadConfigError"}
              /\ err = "" =>
                    cfg = [mode |-> "profile", profile |-> awsEnv.profile,
                           region |-> awsEnv.region]
        /\ cfg.mode = "profile" => awsEnv.profile # "" /\ awsEnv.region # ""
        /\ cfg.mode = "keys" =>
              /\ awsEnv.profile = "" /\ awsEnv.region # ""
              /\ awsEnv.accessKey # "" /\ awsEnv.secretKey # ""
              /\ cfg = [mode |-> "keys", accessKey |-> awsEnv.accessKey,
                        secretKey |-> awsEnv.secretKey,
                        sessionToken |-> awsEnv.sessionToken,
                        region |-> awsEnv.region]
        /\ err = "" <=> cfg # NoCfg
C5_Witness ==
    /\ pc = "getConfig_ret"
    /\ awsEnv.profile # "" /\ awsEnv.accessKey # "" /\ awsEnv.secretKey # ""
    /\ awsEnv.sessionToken # ""
    /\ cfg.mode = "profile"

\* C6: when credential resolution has failed, the run has not opened,
\* created or truncated the local file and has issued no S3 request; when
\* path resolution has failed, the run has spawned no child process.
C6_FailureBeforeIO ==
    /\ err \in CredentialErrors =>
          /\ operation \in {"upload", "download"}
          /\ ~io.opened /\ ~io.created /\ ~io.s3Request /\ ~io.spawned
    /\ err = "PathResolutionError" =>
          /\ operation \in {"plan", "apply"}
          /\ ~io.spawned
C6_Witness ==
    /\ Exited /\ operation = "download" /\ err = "MissingRegion"
    /\ fileName \in RealPaths /\ files[fileName].exists

\* C7: a successful download that directly follows a successful upload for
\* the same environment requests the key the upload wrote, leaves the local
\* file holding exactly the uploaded content and reports its length.
C7_RoundTrip ==
    (Exited /\ operation = "download" /\ exitCode = 0
        /\ prev.uploaded /\ prev.environment = environment) =>
        /\ reqKey = prev.key
        /\ files[fileName] = File(prev.body)
        /\ numBytes = Len(prev.body)
C7_Witness ==
    /\ Exited /\ operation = "download" /\ exitCode = 0
    /\ prev.uploaded /\ prev.environment = environment
    /\ prev.body = <<2, 1>> /\ numBytes = 2

\* C8 as stated: the key of every request is the prefix followed by the base
\* name of the configured path.
C8_Original ==
    io.s3Request => reqKey = S3Path \o Base(fileName)

\* C8 amended: the key of every request, of upload and of download, is the
\* prefix followed by the configured path as it is, directory components
\* included; two environments address the same object exactly when their
\* configured paths are equal.
C8_KeyIsPrefixPlusPath ==
    /\ io.s3Request =>
          /\ operation \in {"upload", "download"}
          /\ reqKey = S3Path \o fileName
    /\ \A e1 \in Environments, e2 \in Environments :
          ObjectKey(S3Path, fileMapping[e1]) = ObjectKey(S3Path, fileMapping[e2])
             <=> fileMapping[e1] = fileMapping[e2]
C8_Witness ==
    /\ io.s3Request /\ operation = "download"
    /\ fileName = <<"d", "/", "a">>
    /\ reqKey = <<"p", "/", "d", "/", "a">>

\* C9 as stated: upload opens the local file before it resolves credentials,
\* so an upload whose file cannot be opened fails with FileNotFound whether
\* or not credentials resolve.
C9_Original ==
    operation = "upload" =>
        /\ io.getConfig => io.opened
        /\ (Exited /\ io.returned /\ Unopenable) => err = "FileNotFound"

\* C9 amended: upload resolves credentials first, then opens the local file,
\* then issues the request; an upload whose file cannot be opened fails with
\* FileNotFound when credentials resolve and with the credential error when
\* they do not.
C9_UploadOrder ==
    operation = "upload" =>
        /\ io.opened => io.getConfig /\ cfg # NoCfg
        /\ io.s3Request => io.opened
        /\ (Exited /\ io.returned /\ Unopenable) =>
              /\ err \in CredentialErrors \cup {"FileNotFound"}
              /\ err = "FileNotFound" <=> cfg # NoCfg
C9_Witness ==
    /\ Exited /\ operation = "upload" /\ io.returned /\ Unopenable
    /\ err = "MissingCredentials" /\ ~io.opened

\* C10: download creates the local file only after credentials have
\* resolved and before the request; once created the file stays; when the
\* transfer fails the file exists and holds exactly the bytes written, none
\* of its earlier content, and the process exits with code 1.
C10_DownloadLeavesPartialFile ==
    operation = "download" =>
        /\ io.created => io.getConfig /\ cfg # NoCfg /\ files[fileName].exists
        /\ io.s3Request => io.created
        /\ err = "DownloadError" =>
              /\ io.s3Request
              /\ files[fileName] = File(Prefix(store[reqKey].data, numBytes))
              /\ Exited => exitCode = 1
C10_Witness ==
    /\ Exited /\ operation = "download" /\ err = "DownloadError"
    /\ numBytes = 1 /\ files[fileName] = File(<<1>>)
    /\ store[reqKey] = File(<<1, 2>>)

====
